---- MODULE Spec2Model ----
(***************************************************************************)
(* A model of langchaingang: the lazy provider registry (provider.py) and  *)
(* the chat-model factory built on it (__init__.py).                       *)
(*                                                                         *)
(* Spec        : provider.py on its own, starting from the empty module    *)
(*               state, driven by register and the three registry queries. *)
(* FactorySpec : the imported package, whose import registers the built-in *)
(*               producers, driven by get_chat_model, get_provider_list    *)
(*               and the registry queries.                                 *)
(* ProgramSpec : Spec with get_chat_model as a fifth operation.            *)
(* FreshSpec   : the imported package under repeated get_chat_model calls  *)
(*               that are kept in a log.                                   *)
(* ConcSpec    : two threads inside get_list() at once.                    *)
(***************************************************************************)
EXTENDS Integers, Sequences, FiniteSets, TLC

VARIABLES
    provider_info_funcs_list,  \* provider.py:13  the registered producers, in order
    provider_dict,             \* provider.py:14  the cached name -> class table
    calls,                     \* calls[i]: how often producer i has been invoked
    last,                      \* what the last operation was given and what it did
    log,                       \* the get_chat_model calls made so far, as records like last
    threads                    \* the position of each thread that is inside a query

vars == <<provider_info_funcs_list, provider_dict, calls, last, log, threads>>

\* What an operation called from the main thread leaves alone.
aux == <<log, threads>>

(***************************************************************************)
(* Bounds                                                                  *)
(***************************************************************************)
MaxFuncs == 3      \* producers registered on top of the initial list
MaxCalls == 2      \* invocations of one producer
MaxMissing == 1    \* provider SDKs missing from the environment at import
MaxLog == 2        \* get_chat_model calls kept in the log

(***************************************************************************)
(* Values                                                                  *)
(***************************************************************************)
NoError == "none"

\* A producer is a zero-argument function: it returns Info(provider_name,
\* model_type) or raises.  `raises` is the exception its body raises, NoError
\* when it returns.
Producer(n, t, e) == [provider_name |-> n, model_type |-> t, raises |-> e]

RegistryNames == {"test1", "test2"}
ModelTypes == {"MockA", "MockB"}
UnexpectedErrors == {"RuntimeError", "AttributeError"}

\* The producers that register is called with.
Producers ==
    {Producer(n, t, NoError) : n \in RegistryNames, t \in ModelTypes}
    \cup {Producer(n, "MockA", "ImportError") : n \in RegistryNames}
    \cup {Producer("test1", "MockA", e) : e \in UnexpectedErrors}

\* The names the queries are made with: the registered ones and one that no
\* producer yields.
QueryNames == RegistryNames \cup {"unsupported_provider"}

(***************************************************************************)
(* dict: an insertion-ordered sequence of <<key, value>> entries with      *)
(* pairwise distinct keys.                                                 *)
(***************************************************************************)
DictKeys(d) == [i \in 1..Len(d) |-> d[i].k]

DictKeySet(d) == {d[i].k : i \in 1..Len(d)}

DictHas(d, key) == key \in DictKeySet(d)

DictGet(d, key) == d[CHOOSE i \in 1..Len(d) : d[i].k = key].v

\* Mutant of DictSet: the assignment rebinds the table to a one-entry dict.
DictSetRebinds(d, key, value) == <<[k |-> key, v |-> value]>>

\* Mutant of DictSet: setdefault, which keeps the value a key already has.
DictSetDefault(d, key, value) ==
    IF key \in {d[i].k : i \in 1..Len(d)} THEN d ELSE Append(d, [k |-> key, v |-> value])

\* Mutant of DictSet: the key is deleted and inserted again, which moves a
\* key that was already there to the end.
DictSetMovesKey(d, key, value) ==
    LET keep == {i \in 1..Len(d) : d[i].k # key}
        nth(n) == CHOOSE i \in keep : Cardinality({j \in keep : j < i}) = n - 1
    IN  Append([n \in 1..Cardinality(keep) |-> d[nth(n)]], [k |-> key, v |-> value])

\* d[key] = value: replaces the value in place, or appends a new entry.
DictSet(d, key, value) ==
    IF DictHas(d, key)
    THEN [i \in 1..Len(d) |-> IF d[i].k = key THEN [k |-> key, v |-> value] ELSE d[i]]
    ELSE Append(d, [k |-> key, v |-> value])

(***************************************************************************)
(* provider.py                                                             *)
(***************************************************************************)
\* Mutant of Caught: the except clause names another exception.
CaughtNothing(e) == FALSE

\* Mutant of Caught: a bare except.
CaughtEverything(e) == TRUE

\* except ImportError: the only exception the derivation loop catches.
Caught(e) == e = "ImportError"

\* Mutant of DeriveFrom: a producer whose import fails still gets an entry,
\* under its name and without a class.
RECURSIVE DeriveFromKeepsFailed(_, _, _)
DeriveFromKeepsFailed(fs, i, st) ==
    IF i > Len(fs) THEN st
    ELSE LET f == fs[i]
             inv == Append(st.invoked, i)
         IN  IF f.raises = NoError
             THEN DeriveFromKeepsFailed(fs, i + 1,
                      [st EXCEPT !.dict = DictSet(@, f.provider_name, f.model_type),
                                 !.invoked = inv])
             ELSE IF Caught(f.raises)
             THEN DeriveFromKeepsFailed(fs, i + 1,
                      [st EXCEPT !.dict = DictSet(@, f.provider_name, "None"),
                                 !.invoked = inv])
             ELSE [st EXCEPT !.invoked = inv, !.exc = f.raises]

\* The for loop of _get_dict from producer i on.  st is the loop's state:
\* the table as filled so far, the producers invoked so far, and the
\* exception that left the loop (NoError while it runs).
RECURSIVE DeriveFrom(_, _, _)
DeriveFrom(fs, i, st) ==
    IF i > Len(fs) THEN st
    ELSE LET f == fs[i]
             inv == Append(st.invoked, i)
         IN  IF f.raises = NoError
             THEN DeriveFrom(fs, i + 1,
                      [st EXCEPT !.dict = DictSet(@, f.provider_name, f.model_type),
                                 !.invoked = inv])
             ELSE IF Caught(f.raises)
             THEN DeriveFrom(fs, i + 1, [st EXCEPT !.invoked = inv])
             ELSE [st EXCEPT !.invoked = inv, !.exc = f.raises]

\* Mutant of Truthy: the test is `is not None`, which an empty dict passes.
TruthyIsNotNone(d) == TRUE

\* if _provider_dict: the truth value of a dict.
Truthy(d) == Len(d) > 0

\* _get_dict(): the cached table when it is non-empty, else the loop.
GetDict(d, fs) ==
    IF Truthy(d)
    THEN [dict |-> d, invoked |-> <<>>, exc |-> NoError]
    ELSE DeriveFrom(fs, 1, [dict |-> d, invoked |-> <<>>, exc |-> NoError])

\* calls after the producers of `invoked` have each been invoked once more.
Count(cs, invoked) ==
    [i \in 1..Len(cs) |->
        cs[i] + Cardinality({j \in 1..Len(invoked) : invoked[j] = i})]

WithinCalls(cs) == \A i \in 1..Len(cs) : cs[i] <= MaxCalls

NoKwargs == [x \in {} |-> "none"]

\* Placeholders of the operation record for "no function" and "no object".
NoFunc == Producer("none", "none", "none")

NoObject == [type |-> "none", kwargs |-> NoKwargs]

\* The record of an operation: its name and arguments, the exception it
\* raised (NoError when it returned), its return value by type, the
\* producers it invoked, and the constructor calls it made.
Blank ==
    [op |-> "init", arg |-> "none", kwargs |-> NoKwargs, given |-> NoFunc,
     raised |-> NoError, message |-> "none",
     ret_bool |-> FALSE, ret_list |-> <<>>, ret_type |-> "none",
     ret_func |-> NoFunc, ret_obj |-> NoObject,
     invoked |-> <<>>, ctor_calls |-> <<>>]

\* Mutant of Register: insert(0, func) instead of append(func).
RegisterFront(func) ==
    /\ Len(provider_info_funcs_list) < MaxFuncs
    /\ provider_info_funcs_list' = <<func>> \o provider_info_funcs_list
    /\ calls' = <<0>> \o calls
    /\ last' = [Blank EXCEPT !.op = "register", !.given = func, !.ret_func = func]
    /\ UNCHANGED provider_dict

\* Mutant of Register: registering drops the cached table.
RegisterClearsCache(func) ==
    /\ Len(provider_info_funcs_list) < MaxFuncs
    /\ provider_info_funcs_list' = Append(provider_info_funcs_list, func)
    /\ calls' = Append(calls, 0)
    /\ last' = [Blank EXCEPT !.op = "register", !.given = func, !.ret_func = func]
    /\ provider_dict' = <<>>

\* register(func)
Register(func) ==
    /\ Len(provider_info_funcs_list) < MaxFuncs
    /\ provider_info_funcs_list' = Append(provider_info_funcs_list, func)
    /\ calls' = Append(calls, 0)
    /\ last' = [Blank EXCEPT !.op = "register", !.given = func, !.ret_func = func]
    /\ UNCHANGED provider_dict

\* is_supported(provider_name)
IsSupported(provider_name) ==
    LET r == GetDict(provider_dict, provider_info_funcs_list) IN
    /\ WithinCalls(Count(calls, r.invoked))
    /\ provider_dict' = r.dict
    /\ calls' = Count(calls, r.invoked)
    /\ last' = IF r.exc # NoError
               THEN [Blank EXCEPT !.op = "is_supported", !.arg = provider_name,
                                  !.invoked = r.invoked, !.raised = r.exc]
               ELSE [Blank EXCEPT !.op = "is_supported", !.arg = provider_name,
                                  !.invoked = r.invoked,
                                  !.ret_bool = DictHas(r.dict, provider_name)]
    /\ UNCHANGED provider_info_funcs_list

\* Mutant of Lookup: _get_dict().get(provider_name), None for a missing key.
LookupGet(r, provider_name) ==
    IF r.exc # NoError THEN [raised |-> r.exc, message |-> "none", type |-> "none"]
    ELSE IF provider_name \notin {r.dict[i].k : i \in 1..Len(r.dict)}
    THEN [raised |-> NoError, message |-> "none", type |-> "None"]
    ELSE [raised |-> NoError, message |-> "none",
          type |-> r.dict[CHOOSE i \in 1..Len(r.dict) : r.dict[i].k = provider_name].v]

\* The outcome of _get_dict()[provider_name]: the exception of the derivation,
\* a KeyError for a missing key, or the class.
Lookup(r, provider_name) ==
    IF r.exc # NoError THEN [raised |-> r.exc, message |-> "none", type |-> "none"]
    ELSE IF ~DictHas(r.dict, provider_name)
    THEN [raised |-> "KeyError", message |-> provider_name, type |-> "none"]
    ELSE [raised |-> NoError, message |-> "none", type |-> DictGet(r.dict, provider_name)]

\* get_chat_model_class(provider_name)
GetChatModelClass(provider_name) ==
    LET r == GetDict(provider_dict, provider_info_funcs_list)
        l == Lookup(r, provider_name) IN
    /\ WithinCalls(Count(calls, r.invoked))
    /\ provider_dict' = r.dict
    /\ calls' = Count(calls, r.invoked)
    /\ last' = [Blank EXCEPT !.op = "get_chat_model_class", !.arg = provider_name,
                             !.invoked = r.invoked, !.raised = l.raised,
                             !.message = l.message, !.ret_type = l.type]
    /\ UNCHANGED provider_info_funcs_list

\* get_list()
GetList ==
    LET r == GetDict(provider_dict, provider_info_funcs_list) IN
    /\ WithinCalls(Count(calls, r.invoked))
    /\ provider_dict' = r.dict
    /\ calls' = Count(calls, r.invoked)
    /\ last' = IF r.exc # NoError
               THEN [Blank EXCEPT !.op = "get_list", !.invoked = r.invoked,
                                  !.raised = r.exc]
               ELSE [Blank EXCEPT !.op = "get_list", !.invoked = r.invoked,
                                  !.ret_list = DictKeys(r.dict)]
    /\ UNCHANGED provider_info_funcs_list

(***************************************************************************)
(* __init__.py                                                             *)
(***************************************************************************)
\* The producers the package registers when it is imported, in order, with
\* the class each one imports.
Builtin ==
    << <<"openai", "ChatOpenAI">>, <<"azure_openai", "AzureChatOpenAI">>,
       <<"bedrock", "ChatBedrock">>, <<"vertex", "ChatVertexAI">>,
       <<"gemini", "ChatGoogleGenerativeAI">>, <<"anthropic", "ChatAnthropic">>,
       <<"ollama", "ChatOllama">> >>

BuiltinNames == {Builtin[i][1] : i \in 1..Len(Builtin)}

\* The built-in producers in an environment where the SDKs of `missing` are
\* not installed: the import inside such a producer raises ImportError.
BuiltinProducers(missing) ==
    [i \in 1..Len(Builtin) |->
        Producer(Builtin[i][1], Builtin[i][2],
                 IF Builtin[i][1] \in missing THEN "ImportError" ELSE NoError)]

KwargKeys == {"model", "model_id", "model_name"}
KwargValues == {"test-model", "value"}

\* The keyword arguments get_chat_model is called with.
Kwargs == UNION {[K -> KwargValues] : K \in SUBSET KwargKeys}

\* The provider names get_chat_model is called with: a provider without a
\* rename, the two with one, and a name that no producer yields.
FactoryNames == {"openai", "bedrock", "vertex", "nonexistent"}

\* What a client constructor does with its arguments: it returns an object
\* or raises an error of the SDK.
CtorOutcomes == {NoError, "ValidationError"}

NoneType == "None"

\* kwargs.pop(key) leaves kwargs without key.
Pop(kw, key) == [x \in DOMAIN kw \ {key} |-> kw[x]]

\* kwargs[key] = value
SetItem(kw, key, value) ==
    [x \in DOMAIN kw \cup {key} |-> IF x = key THEN value ELSE kw[x]]

\* Mutant of RenameModel: kwargs[to] = kwargs["model"], which leaves model in.
RenameModelKeeps(kw, to) ==
    IF "model" \in DOMAIN kw THEN SetItem(kw, to, kw["model"]) ELSE kw

\* if "model" in kwargs: kwargs[to] = kwargs.pop("model")
RenameModel(kw, to) ==
    IF "model" \in DOMAIN kw THEN SetItem(Pop(kw, "model"), to, kw["model"]) ELSE kw

\* Mutant of Renamed: the bedrock rename is applied whatever the provider.
RenamedAlways(provider_name, kw) ==
    LET k1 == RenameModel(kw, "model_id")
    IN  IF provider_name = "vertex" THEN RenameModel(k1, "model_name") ELSE k1

\* The provider-specific renames of get_chat_model, in the order of the code.
Renamed(provider_name, kw) ==
    LET k1 == IF provider_name = "bedrock" THEN RenameModel(kw, "model_id") ELSE kw
    IN  IF provider_name = "vertex" THEN RenameModel(k1, "model_name") ELSE k1

\* Mutant of GetChatModel: the client of the previous call is kept and handed
\* out again when the provider and the config are the same.
GetChatModelCached(provider_name, kwargs, ctor) ==
    LET r == GetDict(provider_dict, provider_info_funcs_list)
        l == Lookup(r, provider_name)
        kw == Renamed(provider_name, kwargs)
        call == [type |-> l.type, kwargs |-> kw]
        base == [Blank EXCEPT !.op = "get_chat_model", !.arg = provider_name,
                              !.kwargs = kwargs, !.invoked = r.invoked]
        hit == /\ last.op = "get_chat_model" /\ last.arg = provider_name
               /\ last.kwargs = kwargs /\ last.ret_obj # NoObject
    IN
    /\ WithinCalls(Count(calls, r.invoked))
    /\ provider_dict' = r.dict
    /\ calls' = Count(calls, r.invoked)
    /\ last' = IF l.raised # NoError
               THEN [base EXCEPT !.raised = l.raised, !.message = l.message]
               ELSE IF hit
               THEN [base EXCEPT !.ret_obj = last.ret_obj]
               ELSE IF ctor # NoError
               THEN [base EXCEPT !.ctor_calls = <<call>>, !.raised = ctor]
               ELSE [base EXCEPT !.ctor_calls = <<call>>, !.ret_obj = call]
    /\ UNCHANGED provider_info_funcs_list

\* Mutant of GetChatModel: a constructor that fails is called a second time
\* before the failure is passed on.
GetChatModelRetries(provider_name, kwargs, ctor) ==
    LET r == GetDict(provider_dict, provider_info_funcs_list)
        l == Lookup(r, provider_name)
        kw == Renamed(provider_name, kwargs)
        call == [type |-> l.type, kwargs |-> kw]
        base == [Blank EXCEPT !.op = "get_chat_model", !.arg = provider_name,
                              !.kwargs = kwargs, !.invoked = r.invoked]
    IN
    /\ WithinCalls(Count(calls, r.invoked))
    /\ provider_dict' = r.dict
    /\ calls' = Count(calls, r.invoked)
    /\ last' = IF l.raised # NoError
               THEN [base EXCEPT !.raised = l.raised, !.message = l.message]
               ELSE IF ctor # NoError
               THEN [base EXCEPT !.ctor_calls = <<call, call>>, !.raised = ctor]
               ELSE [base EXCEPT !.ctor_calls = <<call>>, !.ret_obj = call]
    /\ UNCHANGED provider_info_funcs_list

\* get_chat_model(provider_name, **kwargs); ctor is what the constructor of
\* the resolved class does when it is called.
GetChatModel(provider_name, kwargs, ctor) ==
    LET r == GetDict(provider_dict, provider_info_funcs_list)
        l == Lookup(r, provider_name)
        kw == Renamed(provider_name, kwargs)
        call == [type |-> l.type, kwargs |-> kw]
        base == [Blank EXCEPT !.op = "get_chat_model", !.arg = provider_name,
                              !.kwargs = kwargs, !.invoked = r.invoked]
    IN
    /\ WithinCalls(Count(calls, r.invoked))
    /\ provider_dict' = r.dict
    /\ calls' = Count(calls, r.invoked)
    /\ last' = IF l.raised # NoError
               THEN [base EXCEPT !.raised = l.raised, !.message = l.message]
               ELSE IF l.type = NoneType
               THEN [base EXCEPT !.raised = "ValueError",
                                 !.message = "Unsupported provider: " \o provider_name]
               ELSE IF ctor # NoError
               THEN [base EXCEPT !.ctor_calls = <<call>>, !.raised = ctor]
               ELSE [base EXCEPT !.ctor_calls = <<call>>, !.ret_obj = call]
    /\ UNCHANGED provider_info_funcs_list

\* get_chat_model called by a caller that keeps a record of each call.
LoggedGetChatModel(provider_name, kwargs, ctor) ==
    /\ Len(log) < MaxLog
    /\ GetChatModel(provider_name, kwargs, ctor)
    /\ log' = Append(log, last')
    /\ UNCHANGED threads

\* A small set of configs: none, and a model.
TestKwargs == {NoKwargs, [x \in {"model"} |-> "test-model"]}

\* get_provider_list()
GetProviderList == GetList

\* The module state of provider.py before any call.
Init ==
    /\ provider_info_funcs_list = <<>>
    /\ provider_dict = <<>>
    /\ calls = <<>>
    /\ last = Blank
    /\ log = <<>>
    /\ threads = <<>>

Next ==
    \/ \E func \in Producers : Register(func) /\ UNCHANGED aux
    \/ \E n \in QueryNames : IsSupported(n) /\ UNCHANGED aux
    \/ \E n \in QueryNames : GetChatModelClass(n) /\ UNCHANGED aux
    \/ GetList /\ UNCHANGED aux

Spec == Init /\ [][Next]_vars

\* The state after `import langchaingang`: the built-in producers are
\* registered, none has been invoked, and the environment decides which of
\* them will fail to import its SDK.
FactoryInit ==
    \E missing \in SUBSET BuiltinNames :
        /\ Cardinality(missing) <= MaxMissing
        /\ provider_info_funcs_list = BuiltinProducers(missing)
        /\ provider_dict = <<>>
        /\ calls = [i \in 1..Len(Builtin) |-> 0]
        /\ last = Blank
        /\ log = <<>>
        /\ threads = <<>>

FactoryNext ==
    \/ \E n \in FactoryNames, kw \in Kwargs, c \in CtorOutcomes :
            GetChatModel(n, kw, c) /\ UNCHANGED aux
    \/ GetProviderList /\ UNCHANGED aux
    \/ \E n \in FactoryNames : IsSupported(n) /\ UNCHANGED aux
    \/ \E n \in FactoryNames : GetChatModelClass(n) /\ UNCHANGED aux

FactorySpec == FactoryInit /\ [][FactoryNext]_vars

\* provider.py and get_chat_model together, from the empty module state: the
\* producers of the tests are registered and resolved through the factory.
ProgramNext ==
    \/ \E func \in Producers : Register(func) /\ UNCHANGED aux
    \/ \E n \in QueryNames : IsSupported(n) /\ UNCHANGED aux
    \/ \E n \in QueryNames : GetChatModelClass(n) /\ UNCHANGED aux
    \/ GetList /\ UNCHANGED aux
    \/ \E n \in QueryNames, c \in CtorOutcomes :
            GetChatModel(n, NoKwargs, c) /\ UNCHANGED aux

ProgramSpec == Init /\ [][ProgramNext]_vars

\* The imported package under a caller that only calls get_chat_model and
\* logs its calls.
FreshNext ==
    \E n \in FactoryNames, kw \in TestKwargs, c \in CtorOutcomes :
        LoggedGetChatModel(n, kw, c)

FreshSpec == FactoryInit /\ [][FreshNext]_vars

(***************************************************************************)
(* Two threads inside get_list().  A thread can be preempted between the   *)
(* statements of _get_dict; the module has no lock.                        *)
(***************************************************************************)
Threads == {"t1", "t2"}

\* A thread about to call get_list().
Calling == [pc |-> "call", i |-> 0, raised |-> NoError, ret_list |-> <<>>]

\* if _provider_dict: return _provider_dict -- else enter the for loop.
ThreadCheck(t) ==
    /\ threads[t].pc = "call"
    /\ threads' = [threads EXCEPT ![t].pc = IF Truthy(provider_dict) THEN "return" ELSE "loop",
                                  ![t].i = 1]
    /\ UNCHANGED <<provider_info_funcs_list, provider_dict, calls, last, log>>

\* One pass through the body of the for loop: the next producer is invoked
\* and its entry stored, or its ImportError caught, or its error raised; at
\* the end of the list the loop is left for the return statement.
ThreadInvoke(t) ==
    /\ threads[t].pc = "loop"
    /\ IF threads[t].i > Len(provider_info_funcs_list)
       THEN /\ threads' = [threads EXCEPT ![t].pc = "return"]
            /\ UNCHANGED <<provider_dict, calls>>
       ELSE LET i == threads[t].i
                f == provider_info_funcs_list[i]
            IN  /\ calls' = [calls EXCEPT ![i] = @ + 1]
                /\ provider_dict' =
                      IF f.raises = NoError
                      THEN DictSet(provider_dict, f.provider_name, f.model_type)
                      ELSE provider_dict
                /\ threads' =
                      IF f.raises = NoError \/ Caught(f.raises)
                      THEN [threads EXCEPT ![t].i = i + 1]
                      ELSE [threads EXCEPT ![t].pc = "raised", ![t].raised = f.raises]
    /\ UNCHANGED <<provider_info_funcs_list, last, log>>

\* list(_get_dict().keys()) on the dict that _get_dict returned.
ThreadKeys(t) ==
    /\ threads[t].pc = "return"
    /\ threads' = [threads EXCEPT ![t].pc = "done",
                                  ![t].ret_list = DictKeys(provider_dict)]
    /\ UNCHANGED <<provider_info_funcs_list, provider_dict, calls, last, log>>

\* The producers were registered at process start; no query has been made;
\* both threads are about to make one.
ConcInit ==
    \E fs \in UNION {[1..n -> Producers] : n \in 0..MaxFuncs} :
        /\ provider_info_funcs_list = fs
        /\ provider_dict = <<>>
        /\ calls = [i \in 1..Len(fs) |-> 0]
        /\ last = Blank
        /\ log = <<>>
        /\ threads = [t \in Threads |-> Calling]

ConcNext ==
    \E t \in Threads :
        \/ ThreadCheck(t)
        \/ ThreadInvoke(t)
        \/ ThreadKeys(t)

ConcSpec == ConcInit /\ [][ConcNext]_vars

(***************************************************************************)
(* Vocabulary of the properties                                            *)
(***************************************************************************)
QueryOps == {"is_supported", "get_chat_model_class", "get_list", "get_chat_model"}

Registered == 1..Len(provider_info_funcs_list)

Succeeds(i) == provider_info_funcs_list[i].raises = NoError

\* The last operation was a query whose derivation loop went through the
\* whole producer list.
DerivedNow ==
    /\ last.op \in QueryOps
    /\ Len(provider_info_funcs_list) > 0
    /\ last.invoked = [i \in Registered |-> i]
    /\ last.raised \notin UnexpectedErrors

TableNames == {provider_dict[m].k : m \in 1..Len(provider_dict)}

ListedNames == {last.ret_list[m] : m \in 1..Len(last.ret_list)}

(***************************************************************************)
(* C1  get_chat_model with a provider name that is not a key of the        *)
(* derived table raises ValueError "Unsupported provider: <name>" and      *)
(* calls no constructor.                                                   *)
(***************************************************************************)
C1_UnsupportedRaisesValueError ==
    (last.op = "get_chat_model" /\ last.arg \notin TableNames)
        => /\ last.raised = "ValueError"
           /\ last.message = "Unsupported provider: " \o last.arg
           /\ last.ctor_calls = <<>>

(***************************************************************************)
(* C2  A producer that raises ImportError is skipped: no query fails with  *)
(* ImportError, and after a derivation that went through the whole list    *)
(* the table holds the name of every producer that succeeded and no name   *)
(* that only ImportError producers carry, wherever those sit in the list.  *)
(***************************************************************************)
C2_ImportErrorSkipped ==
    /\ last.raised # "ImportError"
    /\ DerivedNow =>
         /\ \A i \in Registered : Succeeds(i) =>
                provider_info_funcs_list[i].provider_name \in TableNames
         /\ \A i \in Registered :
                ( /\ provider_info_funcs_list[i].raises = "ImportError"
                  /\ \A j \in Registered : Succeeds(j) =>
                        provider_info_funcs_list[j].provider_name
                            # provider_info_funcs_list[i].provider_name )
                => provider_info_funcs_list[i].provider_name \notin TableNames

C2_Witness ==
    /\ DerivedNow
    /\ Len(provider_info_funcs_list) = 3
    /\ provider_info_funcs_list[1].raises = "ImportError"
    /\ Succeeds(2)
    /\ provider_info_funcs_list[3].raises = "ImportError"
    /\ provider_info_funcs_list[3].provider_name # provider_info_funcs_list[2].provider_name
    /\ last.op = "get_list"
    /\ last.ret_list = <<provider_info_funcs_list[2].provider_name>>

(***************************************************************************)
(* C3  As claimed: whenever every registered producer succeeds, get_list() *)
(* returns exactly the set of their names, whatever registrations and      *)
(* queries came before.                                                    *)
(***************************************************************************)
C3_Original ==
    ( /\ last.op = "get_list"
      /\ \A i \in Registered : Succeeds(i) )
    => /\ last.raised = NoError
       /\ ListedNames = {provider_info_funcs_list[i].provider_name : i \in Registered}

(***************************************************************************)
(* C3  As amended: whenever every registered producer succeeds and has     *)
(* been invoked, i.e. was registered before the query that filled the      *)
(* cache, get_list() returns exactly the set of their names.               *)
(***************************************************************************)
C3_Amended ==
    ( /\ last.op = "get_list"
      /\ \A i \in Registered : Succeeds(i) /\ calls[i] >= 1 )
    => /\ last.raised = NoError
       /\ ListedNames = {provider_info_funcs_list[i].provider_name : i \in Registered}

C3_Witness ==
    /\ last.op = "get_list"
    /\ Len(provider_info_funcs_list) = 2
    /\ \A i \in Registered : Succeeds(i) /\ calls[i] >= 1
    /\ provider_info_funcs_list[1].provider_name # provider_info_funcs_list[2].provider_name
    /\ ListedNames = RegistryNames
    /\ last.invoked = <<>>

(***************************************************************************)
(* C4  For bedrock (vertex), a config with the key model reaches the       *)
(* constructor without model, with model_id (model_name) holding model's   *)
(* value and every other key unchanged; a config without model reaches it  *)
(* unchanged.                                                              *)
(***************************************************************************)
RenameHolds(given, passed, to) ==
    IF "model" \in DOMAIN given
    THEN /\ "model" \notin DOMAIN passed
         /\ DOMAIN passed = (DOMAIN given \ {"model"}) \cup {to}
         /\ passed[to] = given["model"]
         /\ \A key \in DOMAIN given \ {"model", to} : passed[key] = given[key]
    ELSE passed = given

C4_BedrockVertexRename ==
    (last.op = "get_chat_model" /\ last.raised \notin {"KeyError", "ValueError"})
    => /\ Len(last.ctor_calls) = 1
       /\ last.arg = "bedrock" =>
            /\ last.ctor_calls[1].type = "ChatBedrock"
            /\ RenameHolds(last.kwargs, last.ctor_calls[1].kwargs, "model_id")
       /\ last.arg = "vertex" =>
            /\ last.ctor_calls[1].type = "ChatVertexAI"
            /\ RenameHolds(last.kwargs, last.ctor_calls[1].kwargs, "model_name")

C4_Witness ==
    /\ last.op = "get_chat_model"
    /\ last.arg = "bedrock"
    /\ last.kwargs = [model |-> "test-model", model_id |-> "value", model_name |-> "value"]
    /\ last.ctor_calls =
         <<[type |-> "ChatBedrock",
            kwargs |-> [model_id |-> "test-model", model_name |-> "value"]]>>
    /\ last.ret_obj = last.ctor_calls[1]

(***************************************************************************)
(* C5  For a supported provider other than bedrock and vertex the          *)
(* constructor is called with exactly the config get_chat_model was given. *)
(***************************************************************************)
C5_OtherProvidersUnchanged ==
    ( /\ last.op = "get_chat_model"
      /\ last.raised \notin {"KeyError", "ValueError"}
      /\ last.arg \notin {"bedrock", "vertex"} )
    => /\ Len(last.ctor_calls) = 1
       /\ last.ctor_calls[1].type = "ChatOpenAI"
       /\ DOMAIN last.ctor_calls[1].kwargs = DOMAIN last.kwargs
       /\ \A key \in DOMAIN last.kwargs : last.ctor_calls[1].kwargs[key] = last.kwargs[key]

C5_Witness ==
    /\ last.op = "get_chat_model"
    /\ last.arg = "openai"
    /\ last.kwargs = [model |-> "test-model", model_id |-> "value"]
    /\ last.ctor_calls = <<[type |-> "ChatOpenAI", kwargs |-> last.kwargs]>>
    /\ last.raised = NoError

(***************************************************************************)
(* C6  is_supported(name) returns true iff name is a key of the table, and *)
(* then get_chat_model_class(name) returns the class stored for it; for a  *)
(* name no registered producer yields is_supported never returns true and  *)
(* get_chat_model_class returns no value.  A query returns nothing only    *)
(* when the derivation is aborted by a producer's unexpected error or, for *)
(* get_chat_model_class, when the key is missing (KeyError).               *)
(***************************************************************************)
RegisteredNames == {provider_info_funcs_list[i].provider_name : i \in Registered}

C6_SupportedIffKey ==
    /\ last.op = "is_supported" =>
         /\ last.raised \notin {NoError, "KeyError", "ImportError"}
                => \E i \in Registered : provider_info_funcs_list[i].raises = last.raised
         /\ last.raised \notin {"KeyError", "ImportError"}
         /\ last.raised = NoError => (last.ret_bool <=> last.arg \in TableNames)
         /\ last.arg \notin RegisteredNames => ~last.ret_bool
    /\ last.op = "get_chat_model_class" =>
         /\ last.raised \notin {NoError, "KeyError", "ImportError"}
                => \E i \in Registered : provider_info_funcs_list[i].raises = last.raised
         /\ last.raised # "ImportError"
         /\ (last.raised \in {NoError, "KeyError"} /\ last.arg \in TableNames) =>
                /\ last.raised = NoError
                /\ \E m \in 1..Len(provider_dict) :
                       provider_dict[m].k = last.arg /\ provider_dict[m].v = last.ret_type
         /\ (last.raised \in {NoError, "KeyError"} /\ last.arg \notin TableNames) =>
                /\ last.raised = "KeyError"
                /\ last.message = last.arg
                /\ last.ret_type = "none"
         /\ last.arg \notin RegisteredNames =>
                last.raised # NoError /\ last.ret_type = "none"

C6_Witness ==
    /\ last.op = "get_chat_model_class"
    /\ last.arg = "unsupported_provider"
    /\ last.raised = "KeyError"
    /\ TableNames = RegistryNames

(***************************************************************************)
(* C7  When two registered producers have both been invoked and both       *)
(* returned the same provider name, the table's entry for that name is the *)
(* class of the later-registered one, and get_list() names it once.        *)
(***************************************************************************)
Yielded(i) == Succeeds(i) /\ calls[i] >= 1

C7_LastRegistrationWins ==
    /\ \A i, j \in Registered :
         ( /\ i < j
           /\ Yielded(i) /\ Yielded(j)
           /\ provider_info_funcs_list[i].provider_name
                = provider_info_funcs_list[j].provider_name
           /\ \A n \in Registered :
                (n > j /\ Yielded(n)) =>
                    provider_info_funcs_list[n].provider_name
                        # provider_info_funcs_list[j].provider_name )
         => \E m \in 1..Len(provider_dict) :
                /\ provider_dict[m].k = provider_info_funcs_list[j].provider_name
                /\ provider_dict[m].v = provider_info_funcs_list[j].model_type
    /\ last.op = "get_list" =>
         \A m, n \in 1..Len(last.ret_list) :
             m # n => last.ret_list[m] # last.ret_list[n]

C7_Witness ==
    /\ last.op = "get_list"
    /\ Len(provider_info_funcs_list) >= 2
    /\ Yielded(1) /\ Yielded(2)
    /\ provider_info_funcs_list[1].provider_name = "test1"
    /\ provider_info_funcs_list[2].provider_name = "test1"
    /\ provider_info_funcs_list[1].model_type = "MockA"
    /\ provider_info_funcs_list[2].model_type = "MockB"
    /\ last.ret_list = <<"test1">>
    /\ provider_dict = <<[k |-> "test1", v |-> "MockB"]>>

(***************************************************************************)
(* C8  When a query invokes a producer that raises anything but            *)
(* ImportError, the query raises that same exception and returns nothing.  *)
(***************************************************************************)
C8_UnexpectedFailurePropagates ==
    last.op \in QueryOps =>
        \A n \in 1..Len(last.invoked) :
            provider_info_funcs_list[last.invoked[n]].raises \notin {NoError, "ImportError"}
            => /\ last.raised = provider_info_funcs_list[last.invoked[n]].raises
               /\ ~last.ret_bool
               /\ last.ret_list = <<>>
               /\ last.ret_type = "none"
               /\ last.ret_obj = NoObject

C8_Witness ==
    /\ last.op = "get_list"
    /\ last.invoked = <<1, 2, 3>>
    /\ Succeeds(1)
    /\ provider_info_funcs_list[2].raises = "ImportError"
    /\ provider_info_funcs_list[3].raises = "AttributeError"
    /\ last.raised = "AttributeError"

(***************************************************************************)
(* C9  As claimed: the derivation runs at most once, so no registered      *)
(* producer is ever invoked more than once.                                *)
(***************************************************************************)
C9_Original == \A i \in 1..Len(calls) : calls[i] <= 1

(***************************************************************************)
(* C10  register(func) appends func as the last element of the producer    *)
(* list, returns func, invokes no producer, and leaves the earlier         *)
(* elements, their order and the cached table unchanged.                   *)
(***************************************************************************)
C10_RegisterAppendsOnly ==
    [][ last'.op = "register" =>
          /\ Len(provider_info_funcs_list') = Len(provider_info_funcs_list) + 1
          /\ provider_info_funcs_list'[Len(provider_info_funcs_list')] = last'.given
          /\ \A i \in Registered :
                provider_info_funcs_list'[i] = provider_info_funcs_list[i]
          /\ last'.ret_func = last'.given
          /\ last'.invoked = <<>>
          /\ \A i \in Registered : calls'[i] = calls[i]
          /\ calls'[Len(calls')] = 0
          /\ provider_dict' = provider_dict ]_vars

C10_Witness ==
    /\ last.op = "register"
    /\ Len(provider_info_funcs_list) = 3
    /\ provider_info_funcs_list[3] = last.given
    /\ provider_info_funcs_list[3] # provider_info_funcs_list[2]
    /\ provider_dict # <<>>
    /\ calls[3] = 0

(***************************************************************************)
(* C11  In every reachable state each entry of the cached table is the     *)
(* name and class that some registered producer yields: the key set is a   *)
(* subset of the yielded names, and derivation adds no name of its own.    *)
(***************************************************************************)
C11_TableWithinYieldedNames ==
    \A m \in 1..Len(provider_dict) :
        \E i \in Registered :
            /\ Succeeds(i)
            /\ provider_info_funcs_list[i].provider_name = provider_dict[m].k
            /\ provider_info_funcs_list[i].model_type = provider_dict[m].v

C11_Witness ==
    /\ Len(provider_info_funcs_list) = 3
    /\ provider_info_funcs_list[1].raises = "ImportError"
    /\ provider_info_funcs_list[1].provider_name = "test2"
    /\ Succeeds(2)
    /\ provider_info_funcs_list[2].provider_name = "test1"
    /\ provider_info_funcs_list[3].raises = "ImportError"
    /\ calls = <<1, 1, 1>>
    /\ TableNames = {"test1"}

(***************************************************************************)
(* C14  As claimed: after a query was aborted by a producer's unexpected   *)
(* error the cached table is empty, and the next query fails with the same *)
(* error, wherever the failing producer sits in the list.                  *)
(***************************************************************************)
Aborted(l) == l.op \in QueryOps /\ l.raised \in UnexpectedErrors

C14_Original ==
    [][ /\ Aborted(last') => provider_dict' = <<>>
        /\ (Aborted(last) /\ last'.op \in QueryOps) => last'.raised = last.raised
      ]_vars

(***************************************************************************)
(* C15  A query that finds the cached table empty runs the derivation: it  *)
(* invokes the registered producers again, all of them when none raises an *)
(* unexpected error, and so it does on every query while the derivation    *)
(* yields no provider.  A query that finds the table non-empty invokes no  *)
(* producer and leaves the table as it is.                                 *)
(***************************************************************************)
C15_EmptyTableRederives ==
    [][ last'.op \in QueryOps =>
          /\ provider_dict = <<>> =>
               /\ Len(last'.invoked) >= 1 \/ Len(provider_info_funcs_list) = 0
               /\ \A n \in 1..Len(last'.invoked) : last'.invoked[n] = n
               /\ \A i \in Registered :
                    calls'[i] = calls[i] + (IF i <= Len(last'.invoked) THEN 1 ELSE 0)
               /\ (\A i \in Registered :
                      provider_info_funcs_list[i].raises \in {NoError, "ImportError"})
                  => Len(last'.invoked) = Len(provider_info_funcs_list)
               /\ (\A i \in Registered :
                      provider_info_funcs_list[i].raises = "ImportError")
                  => provider_dict' = <<>>
          /\ provider_dict # <<>> =>
               /\ last'.invoked = <<>>
               /\ calls' = calls
               /\ provider_dict' = provider_dict
      ]_vars

C15_Witness ==
    /\ last.op = "get_list"
    /\ Len(provider_info_funcs_list) = 2
    /\ \A i \in Registered : provider_info_funcs_list[i].raises = "ImportError"
    /\ calls = <<2, 2>>
    /\ last.invoked = <<1, 2>>
    /\ provider_dict = <<>>
    /\ last.ret_list = <<>>

(***************************************************************************)
(* C18  get_list() returns each resolved name once, in the registration    *)
(* order of the first producer that yielded it; a later producer yielding  *)
(* the same name replaces the class and does not move the name.            *)
(***************************************************************************)
\* The producers that were the first to yield their name.
FirstYields ==
    {i \in Registered :
        /\ Yielded(i)
        /\ \A j \in Registered :
              (j < i /\ Yielded(j)) =>
                  provider_info_funcs_list[j].provider_name
                      # provider_info_funcs_list[i].provider_name}

C18_ListInFirstYieldOrder ==
    (last.op = "get_list" /\ last.raised = NoError) =>
        /\ Len(last.ret_list) = Cardinality(FirstYields)
        /\ \A i \in FirstYields :
              last.ret_list[Cardinality({j \in FirstYields : j <= i})]
                  = provider_info_funcs_list[i].provider_name

C18_Witness ==
    /\ last.op = "get_list"
    /\ provider_info_funcs_list =
         <<Producer("test2", "MockA", NoError), Producer("test1", "MockA", NoError),
           Producer("test2", "MockB", NoError)>>
    /\ last.ret_list = <<"test2", "test1">>
    /\ provider_dict = <<[k |-> "test2", v |-> "MockB"], [k |-> "test1", v |-> "MockA"]>>

(***************************************************************************)
(* C12  get_chat_model keeps no client: every call that resolves its       *)
(* provider invokes the class's constructor exactly once, with the         *)
(* (renamed) config of that call, and returns that invocation's result, so *)
(* the calls made so far caused as many constructor invocations as there   *)
(* were calls with a supported provider, also when two calls are the same. *)
(***************************************************************************)
Resolved(e) == e.raised \notin {"KeyError", "ValueError"} \cup UnexpectedErrors

RECURSIVE CtorInvocations(_)
CtorInvocations(l) ==
    IF l = <<>> THEN 0 ELSE Len(Head(l).ctor_calls) + CtorInvocations(Tail(l))

C12_NoClientCaching ==
    /\ \A n \in 1..Len(log) :
         Resolved(log[n]) =>
            /\ Len(log[n].ctor_calls) = 1
            /\ log[n].ctor_calls[1].kwargs = Renamed(log[n].arg, log[n].kwargs)
            /\ log[n].raised = NoError => log[n].ret_obj = log[n].ctor_calls[1]
            /\ log[n].raised # NoError => log[n].ret_obj = NoObject
    /\ CtorInvocations(log) = Cardinality({n \in 1..Len(log) : Resolved(log[n])})

C12_Witness ==
    /\ Len(log) = 2
    /\ log[1].arg = "openai" /\ log[2].arg = "openai"
    /\ log[1].kwargs = log[2].kwargs
    /\ log[2].ret_obj = log[1].ret_obj
    /\ log[1].ret_obj = [type |-> "ChatOpenAI", kwargs |-> [model |-> "test-model"]]
    /\ CtorInvocations(log) = 2

(***************************************************************************)
(* C17  Once the cached table is non-empty no call changes it or invokes a *)
(* producer: register, get_list, is_supported, get_chat_model_class and    *)
(* get_chat_model leave every entry as it is, and each query answers from  *)
(* the table as it was.                                                    *)
(***************************************************************************)
C17_NonEmptyTableFrozen ==
    [][ provider_dict # <<>> =>
          /\ provider_dict' = provider_dict
          /\ last'.invoked = <<>>
          /\ \A i \in 1..Len(calls) : calls'[i] = calls[i]
          /\ last'.op = "get_list" =>
                last'.raised = NoError /\ last'.ret_list = DictKeys(provider_dict)
          /\ last'.op = "is_supported" =>
                /\ last'.raised = NoError
                /\ last'.ret_bool <=> last'.arg \in TableNames
          /\ last'.op = "get_chat_model_class" =>
                IF last'.arg \in TableNames
                THEN /\ last'.raised = NoError
                     /\ last'.ret_type = DictGet(provider_dict, last'.arg)
                ELSE last'.raised = "KeyError"
          /\ last'.op = "get_chat_model" =>
                IF last'.arg \in TableNames
                THEN /\ Len(last'.ctor_calls) = 1
                     /\ last'.ctor_calls[1].type = DictGet(provider_dict, last'.arg)
                ELSE last'.ctor_calls = <<>>
      ]_vars

C17_Witness ==
    /\ provider_dict = <<[k |-> "test1", v |-> "MockA"]>>
    /\ Len(provider_info_funcs_list) = 3
    /\ provider_info_funcs_list[2] = Producer("test1", "MockB", NoError)
    /\ provider_info_funcs_list[3] = Producer("test2", "MockA", NoError)
    /\ calls = <<1, 0, 0>>
    /\ last.op = "get_chat_model"
    /\ last.arg = "test1"
    /\ last.invoked = <<>>
    /\ last.ret_obj = [type |-> "MockA", kwargs |-> NoKwargs]

(***************************************************************************)
(* C13  As claimed: when the constructor fails, get_chat_model raises the  *)
(* constructor's error and returns no client, the constructor of the       *)
(* requested provider's class was called once and no other, and the        *)
(* producer list and the cached table are as they were before the call.    *)
(***************************************************************************)
\* The call invoked a constructor and returned no client.
CtorFailed(l) == l.op = "get_chat_model" /\ l.ctor_calls # <<>> /\ l.ret_obj = NoObject

FailurePropagated ==
    /\ last'.raised \in CtorOutcomes \ {NoError}
    /\ Len(last'.ctor_calls) = 1
    /\ \E i \in Registered :
          /\ Succeeds(i)
          /\ provider_info_funcs_list[i].provider_name = last'.arg
          /\ provider_info_funcs_list[i].model_type = last'.ctor_calls[1].type
    /\ provider_info_funcs_list' = provider_info_funcs_list

C13_Original ==
    [][ CtorFailed(last') => FailurePropagated /\ provider_dict' = provider_dict ]_vars

(***************************************************************************)
(* C13  As amended: the same, except that the cached table is as it was    *)
(* only when it was non-empty before the call; a failed call that finds it *)
(* empty leaves it derived from the registered producers, as any query     *)
(* does.                                                                   *)
(***************************************************************************)
C13_Amended ==
    [][ CtorFailed(last') =>
          /\ FailurePropagated
          /\ provider_dict # <<>> =>
                provider_dict' = provider_dict /\ last'.invoked = <<>>
          /\ provider_dict = <<>> =>
                /\ last'.invoked = [i \in Registered |-> i]
                /\ {provider_dict'[m].k : m \in 1..Len(provider_dict')}
                     = {provider_info_funcs_list[i].provider_name :
                            i \in {j \in Registered : Succeeds(j)}}
      ]_vars

C13_Witness ==
    /\ last.op = "get_chat_model"
    /\ last.arg = "bedrock"
    /\ last.raised = "ValidationError"
    /\ last.ret_obj = NoObject
    /\ last.invoked = <<>>
    /\ last.ctor_calls = <<[type |-> "ChatBedrock", kwargs |-> [model_id |-> "test-model"]]>>
    /\ "openai" \notin TableNames

(***************************************************************************)
(* C16  As claimed, taken where every registered producer succeeds (so     *)
(* that one query alone would derive the whole table once): when two       *)
(* threads make their first query concurrently, no producer is invoked     *)
(* more than once, and once both have returned neither has a result that   *)
(* lacks a name of the derived table.                                      *)
(***************************************************************************)
C16_Original ==
    (\A i \in Registered : Succeeds(i)) =>
        /\ \A i \in 1..Len(calls) : calls[i] <= 1
        /\ (\A t \in DOMAIN threads : threads[t].pc = "done") =>
              \A t \in DOMAIN threads :
                  {threads[t].ret_list[m] : m \in 1..Len(threads[t].ret_list)} = TableNames

====
